---- MODULE Spec2Model ----
(***************************************************************************)
(* A model of the planet viewer of src/src/main.rs: the cube-sphere face   *)
(* mesh generator (create_face_mesh), the planet settings systems          *)
(* (setup_planet, apply_planet_settings, ui_editor) and the pan/orbit      *)
(* camera controller (setup_camera, pan_orbit_camera, reset_camera).       *)
(*                                                                         *)
(* Numbers.  The program computes in f32; the model computes exactly, on   *)
(* inputs chosen so that every value stays representable:                  *)
(*  - an angle is an integer in nominal units of pi/10, so PI = 10.  The   *)
(*    angles that occur are the quarter turns (multiples of 5) and the     *)
(*    quarter turns minus 1, where that 1 stands for exactly atan(1/3)     *)
(*    (1.024 nominal units), the pitch at which setup_camera looks from    *)
(*    (0,2,6) at the origin.  Sin and Cos are exact on these angles;       *)
(*  - a scalar is a + b*sqrt(10), written <<a, b>>, over a denominator     *)
(*    fixed by its kind: RotDen for the entries of a rotation, PanDen for  *)
(*    a pan delta and LenDen for a length;                                 *)
(*  - pointer motion is counted in units of 900 px (a quarter turn of      *)
(*    orbit at 0.1 degree per px), scroll in units of ln(2)/0.16, so that  *)
(*    a zoom delta counts sixteenths of an octave and exp of a whole       *)
(*    number of octaves is a power of two;                                 *)
(*  - the radius is m * 2^(e/16), a scalar m and a count e of sixteenths   *)
(*    of an octave, so that the zoom by exp of any delta is exact; it is   *)
(*    0 where the f32 product is: where exp, or the product, is 2^-150     *)
(*    or less.  A coordinate of center and translation is a sum of such    *)
(*    terms, a function from the e that occur to their scalars over        *)
(*    LenDen;                                                              *)
(*  - a vertex of a face mesh is exact on the cube; on the sphere its      *)
(*    coordinates are fixed-point numbers with MantBits fractional bits,   *)
(*    every operation of normalize rounded as f32 rounds to 24 bits.       *)
(***************************************************************************)
EXTENDS Integers, Sequences, FiniteSets, TLC

VARIABLES
    phase,            \* "idle" between ticks, "update" while the Update systems run, "egui_pass" before ui_editor
    ran,              \* the Update systems that have run in this tick
    tick,             \* ticks started so far
    egui_ctx,         \* what contexts.ctx_mut() gives in this tick
    mouse_buttons,    \* ButtonInput<MouseButton>
    keys,             \* ButtonInput<KeyCode>
    motion_events,    \* Events<MouseMotion> as seen by pan_orbit_camera's reader
    scroll_events,    \* Events<MouseWheel> as seen by pan_orbit_camera's reader
    state,            \* the camera's PanOrbitState
    transform,        \* the camera's Transform
    settings,         \* the PlanetSettings resource
    settings_changed, \* settings.is_changed() as apply_planet_settings sees it
    material_color,   \* base_color of the planet material
    wireframe_global, \* WireframeConfig::global
    faces,            \* PlanetFace normal -> handle of its Mesh3d
    meshes,           \* Assets<Mesh>: handle -> mesh
    meshes_added,     \* calls of Assets<Mesh>::add so far
    reset_invoked,    \* a reset was carried out in this tick
    pan_orbit_log,    \* what pan_orbit_camera met and computed in this tick
    ui_log,           \* what the user did in the Controls window in this tick's UI pass
    mesh_in,          \* arguments of a create_face_mesh call under test
    mesh_out          \* <<its result>>, or <<>> before the call

vars == <<phase, ran, tick, egui_ctx, mouse_buttons, keys, motion_events, scroll_events,
          state, transform, settings, settings_changed, material_color, wireframe_global,
          faces, meshes, meshes_added, reset_invoked, pan_orbit_log, ui_log, mesh_in, mesh_out>>

engine_vars == <<phase, ran, tick, egui_ctx, mouse_buttons, keys, motion_events, scroll_events>>
camera_vars == <<state, transform>>
planet_vars == <<settings, settings_changed, material_color, wireframe_global,
                 faces, meshes, meshes_added>>
mesh_vars == <<mesh_in, mesh_out>>

(***************************************************************************)
(* Bounds of the model.                                                    *)
(***************************************************************************)
MaxTicks == 3
MaxRes == 4
MantBits == 8

(***************************************************************************)
(* Scalars a + b*sqrt(10) and vectors of them.                             *)
(***************************************************************************)
RotDen == 2 * 5
PanDen == 2 * 5
LenDen == RotDen * PanDen

QZero == <<0, 0>>
QInt(a) == <<a, 0>>
QAdd(p, q) == <<p[1] + q[1], p[2] + q[2]>>
QNeg(p) == <<-p[1], -p[2]>>
QScale(k, p) == <<k * p[1], k * p[2]>>
QMul(p, q) == <<p[1] * q[1] + 10 * p[2] * q[2], p[1] * q[2] + p[2] * q[1]>>
QDivExact(p, k) == <<p[1] \div k, p[2] \div k>>

VAdd(u, v) == <<QAdd(u[1], v[1]), QAdd(u[2], v[2]), QAdd(u[3], v[3])>>
VMulQ(u, q) == <<QMul(u[1], q), QMul(u[2], q), QMul(u[3], q)>>
VScale(k, u) == <<QScale(k, u[1]), QScale(k, u[2]), QScale(k, u[3])>>
VDot(u, v) == QAdd(QAdd(QMul(u[1], v[1]), QMul(u[2], v[2])), QMul(u[3], v[3]))

\* Lengths: sums of terms q * 2^(e/16), held as the function from e to q, and
\* vectors of them.
LZero == [e \in {} |-> QZero]
LTerm(q, e) == [x \in (IF q = QZero THEN {} ELSE {e}) |-> q]
LCoef(l, e) == IF e \in DOMAIN l THEN l[e] ELSE QZero
LAdd(k, l) ==
    LET sum == [e \in DOMAIN k \cup DOMAIN l |-> QAdd(LCoef(k, e), LCoef(l, e))]
    IN  [e \in {x \in DOMAIN sum : sum[x] # QZero} |-> sum[e]]
LVTerm(u, e) == <<LTerm(u[1], e), LTerm(u[2], e), LTerm(u[3], e)>>
LVAdd(u, v) == <<LAdd(u[1], v[1]), LAdd(u[2], v[2]), LAdd(u[3], v[3])>>
Vec3_ZERO == <<LZero, LZero, LZero>>

\* Vec2 of integers
Vec2_ZERO == <<0, 0>>
V2Add(u, v) == <<u[1] + v[1], u[2] + v[2]>>
V2Scale(k, u) == <<k * u[1], k * u[2]>>
V2Sub(u, v) == <<u[1] - v[1], u[2] - v[2]>>

RECURSIVE V2Sum(_)
V2Sum(s) == IF s = <<>> THEN Vec2_ZERO ELSE V2Add(Head(s), V2Sum(Tail(s)))

(***************************************************************************)
(* std::f32::consts, in angle units.                                       *)
(***************************************************************************)
PI == 10
TAU == 20
FRAC_PI_2 == 5

\* The angle of nominal size 1: atan(1/3), with cos = 3/sqrt(10), sin = 1/sqrt(10).
CosQuarter(q) == CASE q % 4 = 0 -> 1 [] q % 4 = 1 -> 0 [] q % 4 = 2 -> -1 [] OTHER -> 0
SinQuarter(q) == CASE q % 4 = 0 -> 0 [] q % 4 = 1 -> 1 [] q % 4 = 2 -> 0 [] OTHER -> -1

\* cos and sin of an angle 5q or 5q - 1, over RotDen.
Cos(a) ==
    IF a % 5 = 0
    THEN QInt(RotDen * CosQuarter(a \div 5))
    ELSE LET q == (a + 1) \div 5
         IN  <<0, 3 * CosQuarter(q) + SinQuarter(q)>>
Sin(a) ==
    IF a % 5 = 0
    THEN QInt(RotDen * SinQuarter(a \div 5))
    ELSE LET q == (a + 1) \div 5
         IN  <<0, 3 * SinQuarter(q) - CosQuarter(q)>>

\* The product of two rotation entries, over RotDen again.
RotMul(p, q) == QDivExact(QMul(p, q), RotDen)

\* Quat::from_euler(EulerRot::YXZ, yaw, pitch, 0.0), as the images of the three axes.
Quat_from_euler(yaw, pitch) ==
    [x |-> <<Cos(yaw), QZero, QNeg(Sin(yaw))>>,
     y |-> <<RotMul(Sin(yaw), Sin(pitch)), Cos(pitch), RotMul(Cos(yaw), Sin(pitch))>>,
     z |-> <<RotMul(Sin(yaw), Cos(pitch)), QNeg(Sin(pitch)), RotMul(Cos(yaw), Cos(pitch))>>]

(***************************************************************************)
(* Transform: rotation and translation (the scale is never touched).       *)
(***************************************************************************)
Vec3_X == <<1, 0, 0>>
Vec3_Y == <<0, 1, 0>>
Vec3_Z == <<0, 0, 1>>

\* rot * v for a vector v of integers: a vector over RotDen.
QuatMulVec3(rot, v) ==
    VAdd(VAdd(VScale(v[1], rot.x), VScale(v[2], rot.y)), VScale(v[3], rot.z))

\* state.center + rot * Vec3::Z * state.radius, over LenDen.
OrbitTranslation(center, rot, radius) ==
    LVAdd(center,
          LVTerm(VScale(PanDen, VMulQ(QuatMulVec3(rot, Vec3_Z), radius.m)), radius.e))

\* DeriveTransform placing the camera at the center, the radius left out.
DeriveTransform_AtCenter(st) ==
    [rotation |-> Quat_from_euler(st.yaw, st.pitch), translation |-> st.center]

\* The three lines that re-derive the Transform from a PanOrbitState.
DeriveTransform(st) ==
    LET rot == Quat_from_euler(st.yaw, st.pitch)
    IN  [rotation |-> rot,
         translation |-> OrbitTranslation(st.center, rot, st.radius)]

(***************************************************************************)
(* PanOrbitState and PanOrbitSettings.                                     *)
(***************************************************************************)
PanOrbitState_default_position ==
    [center |-> Vec3_ZERO,
     radius |-> [m |-> QInt(6), e |-> 0],
     pitch |-> 0,
     yaw |-> 0,
     upside_down |-> FALSE]

\* Sensitivities per unit of input: pan over PanDen per motion unit, orbit in
\* angle units per motion unit, zoom in sixteenths of an octave per scroll unit.
PanOrbitSettings_default ==
    [pan_sensitivity |-> 9,
     orbit_sensitivity |-> 5,
     zoom_sensitivity |-> 1,
     pan_button |-> "Middle",
     orbit_button |-> "Right",
     zoom_button |-> "None",
     scroll_action |-> "Zoom",
     scroll_line_sensitivity |-> 16,
     scroll_pixel_sensitivity |-> 1]

(***************************************************************************)
(* setup_camera.                                                           *)
(***************************************************************************)
\* The angles Quat::to_euler(YXZ) answers with: yaw in (-PI, PI], pitch in
\* [-FRAC_PI_2, FRAC_PI_2].
EulerYaws == {y \in (1 - PI)..PI : y % 5 = 0}
EulerPitches == {p \in (-FRAC_PI_2)..FRAC_PI_2 : p % 5 = 0 \/ (p + 1) % 5 = 0}

\* Vec3::length of a vector of plain lengths (e = 0), as a radius.
Vec3_length(v) ==
    LET c == <<LCoef(v[1], 0), LCoef(v[2], 0), LCoef(v[3], 0)>>
        m == CHOOSE r \in {<<a, b>> : a \in 0..8, b \in 0..8} :
                 LET s == QScale(LenDen, r) IN QMul(s, s) = VDot(c, c)
    IN  [m |-> m, e |-> 0]

\* Transform::from_xyz(x, y, z).looking_at(Vec3::ZERO, Vec3::Y): the rotation
\* without roll whose back axis points from the origin to the eye.
Transform_looking_at_origin(eye) ==
    [rotation |->
        CHOOSE rot \in {Quat_from_euler(y, p) : y \in EulerYaws, p \in EulerPitches} :
            OrbitTranslation(Vec3_ZERO, rot, Vec3_length(eye)) = eye,
     translation |-> eye]

\* rotation.to_euler(EulerRot::YXZ), roll dropped.
Quat_to_euler(rot) ==
    CHOOSE e \in EulerYaws \X EulerPitches : Quat_from_euler(e[1], e[2]) = rot

setup_camera ==
    LET eye == LVTerm(<<QInt(0), QInt(2 * LenDen), QInt(6 * LenDen)>>, 0)
        tr == Transform_looking_at_origin(eye)
        e == Quat_to_euler(tr.rotation)
    IN  [transform |-> tr,
         state |-> [center |-> Vec3_ZERO,
                    radius |-> Vec3_length(tr.translation),
                    upside_down |-> FALSE,
                    pitch |-> e[2],
                    yaw |-> e[1]]]

(***************************************************************************)
(* Input of one tick.                                                      *)
(***************************************************************************)
UpdateSystems == {"pan_orbit_camera", "reset_camera", "apply_planet_settings"}

\* ButtonInput::pressed and ButtonInput::just_pressed of an Option<MouseButton>.
OptionPressed(input, btn) == btn # "None" /\ btn \in input.pressed
OptionJustPressed(input, btn) == btn # "None" /\ btn \in input.just_pressed

\* Events<E> keeps two buffers, and the reader reads what it has not read of
\* both.  The events of a tick are sent to the newer buffer before the schedules
\* run; an update of the events drops the older buffer and makes the newer one
\* the older.  The engine updates the events in First, in the ticks that follow
\* a fixed time step: in every tick at a low frame rate, in some at a high one.
\* An event is held with the tick it was sent in, as Events<E> holds it with its id.
NoEvents == [prev |-> <<>>, cur |-> <<>>]
UnreadEvents(ev) == ev.prev \o ev.cur
ReadEvents(ev) == [k \in 1..Len(UnreadEvents(ev)) |-> UnreadEvents(ev)[k].event]
EventInstances(events, t) == [k \in 1..Len(events) |-> [event |-> events[k], sent |-> t]]
SendEvents(ev, sent, update) ==
    IF update
    THEN [prev |-> ev.cur \o sent, cur |-> <<>>]
    ELSE [prev |-> ev.prev, cur |-> ev.cur \o sent]

\* Assets<Mesh> after the engine has tracked the handles dropped: a mesh stays
\* while a face holds a handle of it.  The engine does so before Update, so one
\* tick after the handle was overwritten.
track_assets(assets, handles) ==
    [h \in {x \in DOMAIN assets : \E k \in 1..Len(handles) : handles[k].mesh = x} |-> assets[h]]

\* The engine starts a tick: the egui context, the button states, the events of
\* the tick, the assets without a handle freed.
deliver_input(i) ==
    /\ phase = "idle"
    /\ tick < MaxTicks
    /\ tick' = tick + 1
    /\ phase' = "update"
    /\ ran' = {}
    /\ egui_ctx' = i.ctx
    /\ mouse_buttons' = [pressed |-> i.mouse,
                         just_pressed |-> i.mouse \ mouse_buttons.pressed]
    /\ keys' = [pressed |-> i.keys, just_pressed |-> i.keys \ keys.pressed]
    /\ motion_events' = SendEvents(motion_events, EventInstances(i.motion, tick + 1), i.update)
    /\ scroll_events' = SendEvents(scroll_events, EventInstances(i.scroll, tick + 1), i.update)
    /\ reset_invoked' = FALSE
    /\ pan_orbit_log' = <<>>
    /\ ui_log' = <<>>
    /\ meshes' = track_assets(meshes, faces)
    /\ UNCHANGED <<camera_vars, settings, settings_changed, material_color, wireframe_global,
                   faces, meshes_added, mesh_vars>>

\* An Update system has run: the UI pass follows the last of them.
SystemDone(name) ==
    /\ ran' = ran \cup {name}
    /\ phase' = IF ran \cup {name} = UpdateSystems THEN "egui_pass" ELSE "update"
    /\ UNCHANGED <<tick, egui_ctx, mouse_buttons, keys>>

(***************************************************************************)
(* pan_orbit_camera.                                                       *)
(***************************************************************************)
\* The sum of the motion deltas read, its vertical component inverted.
TotalMotion(events) ==
    LET sum == V2Sum(events) IN <<sum[1], -sum[2]>>

\* The scroll events of one unit, summed with the vertical component inverted.
RECURSIVE TotalScroll(_, _)
TotalScroll(events, unit) ==
    IF events = <<>>
    THEN Vec2_ZERO
    ELSE LET ev == Head(events)
             rest == TotalScroll(Tail(events), unit)
         IN  IF ev.unit = unit THEN <<rest[1] + ev.x, rest[2] - ev.y>> ELSE rest

\* total_pan, total_orbit and total_zoom have one form: the motion while the
\* action's button is held, and the scroll when the wheel is set to the action.
TotalDelta(cfg, buttons, action, button, sensitivity, motion, lines, pixels) ==
    LET by_button ==
            IF OptionPressed(buttons, button)
            THEN V2Sub(Vec2_ZERO, V2Scale(sensitivity, motion))
            ELSE Vec2_ZERO
        by_scroll ==
            IF cfg.scroll_action = action
            THEN V2Sub(V2Sub(by_button,
                             V2Scale(cfg.scroll_line_sensitivity * sensitivity, lines)),
                       V2Scale(cfg.scroll_pixel_sensitivity * sensitivity, pixels))
            ELSE by_button
    IN  by_scroll

TotalPan(cfg, buttons, motion, lines, pixels) ==
    TotalDelta(cfg, buttons, "Pan", cfg.pan_button, cfg.pan_sensitivity, motion, lines, pixels)
TotalOrbit(cfg, buttons, motion, lines, pixels) ==
    TotalDelta(cfg, buttons, "Orbit", cfg.orbit_button, cfg.orbit_sensitivity, motion, lines, pixels)
TotalZoom(cfg, buttons, motion, lines, pixels) ==
    TotalDelta(cfg, buttons, "Zoom", cfg.zoom_button, cfg.zoom_sensitivity, motion, lines, pixels)

\* 2^(k/16) and a scalar a + b*sqrt(10) in 12 fractional bits, and the least k
\* with m <= 2^(k/16), for a scalar m of 1 or more.
Pow2Sixteenths(k) ==
    2 ^ (k \div 16) *
    <<4096, 4277, 4467, 4664, 4871, 5087, 5312, 5547,
      5793, 6049, 6317, 6597, 6889, 7194, 7512, 7845>>[(k % 16) + 1]
QFixed(m) == 4096 * m[1] + 12953 * m[2]
CeilLog2Sixteenths(m) ==
    CHOOSE k \in 0..255 :
        /\ QFixed(m) <= Pow2Sixteenths(k)
        /\ k > 0 => QFixed(m) > Pow2Sixteenths(k - 1)

\* An f32 of 2^-150 or less is 0: half the least subnormal, in sixteenths of an
\* octave below 1.
F32ZeroBelow == 16 * 150

\* radius * exp(z) for z in sixteenths of an octave: exact, and 0 where exp(z)
\* or the product underflows.
MulExp(radius, z) ==
    IF radius.m = QZero
    THEN radius
    ELSE IF \/ z <= -F32ZeroBelow
            \/ CeilLog2Sixteenths(radius.m) + radius.e + z <= -F32ZeroBelow
         THEN [m |-> QZero, e |-> 0]
         ELSE [m |-> radius.m, e |-> radius.e + z]

\* ApplyZoom taking the horizontal component of the delta.
ApplyZoom_Horizontal(st, total_zoom) ==
    IF total_zoom # Vec2_ZERO
    THEN [st EXCEPT !.radius = MulExp(st.radius, -total_zoom[1])]
    ELSE st

\* if total_zoom != Vec2::ZERO { state.radius *= (-total_zoom.y).exp(); }
ApplyZoom(st, total_zoom) ==
    IF total_zoom # Vec2_ZERO
    THEN [st EXCEPT !.radius = MulExp(st.radius, -total_zoom[2])]
    ELSE st

\* WrapYaw without its second test: a yaw below -PI stays there.
WrapYaw_OnlyUpper(yaw) == IF yaw > PI THEN yaw - TAU ELSE yaw

\* The wrap of yaw after an orbit: one turn down above PI, one turn up below -PI.
WrapYaw(yaw) ==
    LET down == IF yaw > PI THEN yaw - TAU ELSE yaw
    IN  IF down < -PI THEN down + TAU ELSE down

\* ApplyOrbit without the negation of the horizontal delta when upside down.
ApplyOrbit_NoNegate(cfg, buttons, st, total_orbit) ==
    IF total_orbit # Vec2_ZERO
    THEN LET upside_down ==
                 IF OptionJustPressed(buttons, cfg.orbit_button)
                 THEN st.pitch < -FRAC_PI_2 \/ st.pitch > FRAC_PI_2
                 ELSE st.upside_down
         IN  [st EXCEPT !.upside_down = upside_down,
                        !.yaw = WrapYaw(st.yaw + total_orbit[1]),
                        !.pitch = st.pitch + total_orbit[2]]
    ELSE st

\* if total_orbit != Vec2::ZERO { ... }
ApplyOrbit(cfg, buttons, st, total_orbit) ==
    IF total_orbit # Vec2_ZERO
    THEN LET upside_down ==
                 IF OptionJustPressed(buttons, cfg.orbit_button)
                 THEN st.pitch < -FRAC_PI_2 \/ st.pitch > FRAC_PI_2
                 ELSE st.upside_down
             orbit_x == IF upside_down THEN -total_orbit[1] ELSE total_orbit[1]
         IN  [st EXCEPT !.upside_down = upside_down,
                        !.yaw = WrapYaw(st.yaw + orbit_x),
                        !.pitch = st.pitch + total_orbit[2]]
    ELSE st

\* if total_pan != Vec2::ZERO { ... }: right and up are those of the Transform
\* as it stands, the radius is the one the zoom of this tick has left.
ApplyPan(st, tr, total_pan) ==
    IF total_pan # Vec2_ZERO
    THEN LET right == QuatMulVec3(tr.rotation, Vec3_X)
             up == QuatMulVec3(tr.rotation, Vec3_Y)
             along_right == VMulQ(right, QScale(total_pan[1], st.radius.m))
             along_up == VMulQ(up, QScale(total_pan[2], st.radius.m))
         IN  [st EXCEPT !.center =
                  LVAdd(LVAdd(st.center, LVTerm(along_right, st.radius.e)),
                        LVTerm(along_up, st.radius.e))]
    ELSE st

\* PanOrbitUpdate without the lines that re-derive the Transform.
PanOrbitUpdate_NoDerive(cfg, buttons, st, tr, motion, lines, pixels) ==
    LET total_pan == TotalPan(cfg, buttons, motion, lines, pixels)
        total_orbit == TotalOrbit(cfg, buttons, motion, lines, pixels)
        total_zoom == TotalZoom(cfg, buttons, motion, lines, pixels)
        new == ApplyPan(ApplyOrbit(cfg, buttons, ApplyZoom(st, total_zoom), total_orbit),
                        tr, total_pan)
    IN  [state |-> new,
         transform |-> tr,
         log |-> [gated |-> FALSE, before |-> st, total_pan |-> total_pan,
                  total_orbit |-> total_orbit, total_zoom |-> total_zoom]]

\* The body of the loop over the camera, from the totals of the tick.
PanOrbitUpdate(cfg, buttons, st, tr, motion, lines, pixels) ==
    LET total_pan == TotalPan(cfg, buttons, motion, lines, pixels)
        total_orbit == TotalOrbit(cfg, buttons, motion, lines, pixels)
        total_zoom == TotalZoom(cfg, buttons, motion, lines, pixels)
        any == total_zoom # Vec2_ZERO \/ total_orbit # Vec2_ZERO \/ total_pan # Vec2_ZERO
        new == ApplyPan(ApplyOrbit(cfg, buttons, ApplyZoom(st, total_zoom), total_orbit),
                        tr, total_pan)
    IN  [state |-> new,
         transform |-> IF any THEN DeriveTransform(new) ELSE tr,
         log |-> [gated |-> FALSE, before |-> st, total_pan |-> total_pan,
                  total_orbit |-> total_orbit, total_zoom |-> total_zoom]]

\* pan_orbit_camera without its early return.
PanOrbitGated_Never(ctx) == FALSE

\* The early return of pan_orbit_camera.
PanOrbitGated(ctx) == ctx.ok /\ ctx.wants_pointer_input

pan_orbit_camera ==
    /\ phase = "update"
    /\ "pan_orbit_camera" \notin ran
    /\ IF PanOrbitGated(egui_ctx)
       THEN /\ pan_orbit_log' = <<[gated |-> TRUE, before |-> state,
                                    total_pan |-> Vec2_ZERO, total_orbit |-> Vec2_ZERO,
                                    total_zoom |-> Vec2_ZERO]>>
            /\ UNCHANGED <<state, transform, motion_events, scroll_events>>
       ELSE LET motion == TotalMotion(ReadEvents(motion_events))
                lines == TotalScroll(ReadEvents(scroll_events), "Line")
                pixels == TotalScroll(ReadEvents(scroll_events), "Pixel")
                new == PanOrbitUpdate(PanOrbitSettings_default, mouse_buttons,
                                      state, transform, motion, lines, pixels)
            IN  /\ state' = new.state
                /\ transform' = new.transform
                /\ motion_events' = NoEvents
                /\ scroll_events' = NoEvents
                /\ pan_orbit_log' = <<new.log>>
    /\ SystemDone("pan_orbit_camera")
    /\ UNCHANGED <<planet_vars, reset_invoked, ui_log, mesh_vars>>

(***************************************************************************)
(* reset_camera.                                                           *)
(***************************************************************************)
\* reset_camera returning early on pointer focus instead of keyboard focus.
ResetGated_OnPointer(ctx) == ctx.ok /\ ctx.wants_pointer_input

\* The early return of reset_camera.
ResetGated(ctx) == ctx.ok /\ ctx.wants_keyboard_input

reset_camera ==
    /\ phase = "update"
    /\ "reset_camera" \notin ran
    /\ IF ~ResetGated(egui_ctx) /\ "KeyR" \in keys.just_pressed
       THEN /\ state' = PanOrbitState_default_position
            /\ transform' = DeriveTransform(PanOrbitState_default_position)
            /\ reset_invoked' = TRUE
       ELSE UNCHANGED <<state, transform, reset_invoked>>
    /\ SystemDone("reset_camera")
    /\ UNCHANGED <<motion_events, scroll_events, pan_orbit_log, ui_log, planet_vars, mesh_vars>>

(***************************************************************************)
(* create_face_mesh.  A Vec3 of the mesh is v / (d * sqrt(q)) for a vector *)
(* v of integers, written [v, d, q], or NaN.                               *)
(***************************************************************************)
IDot(u, v) == u[1] * v[1] + u[2] * v[2] + u[3] * v[3]
ICross(u, v) ==
    <<u[2] * v[3] - u[3] * v[2], u[3] * v[1] - u[1] * v[3], u[1] * v[2] - u[2] * v[1]>>
IAdd(u, v) == <<u[1] + v[1], u[2] + v[2], u[3] + v[3]>>
ISub(u, v) == <<u[1] - v[1], u[2] - v[2], u[3] - v[3]>>
IScale(k, u) == <<k * u[1], k * u[2], k * u[3]>>

NaN3 == [nan |-> TRUE, v |-> <<0, 0, 0>>, d |-> 0, q |-> 0]
Float3(v, d) == [nan |-> FALSE, v |-> v, d |-> d, q |-> 1]

\* The floats of a normalised vector are fixed-point numbers over MeshDen, each
\* operation rounded to nearest-even as f32 rounds.
MeshDen == 2 ^ MantBits
\* a / d rounded to nearest, ties to even (a >= 0, d > 0).
RoundDiv(a, d) ==
    LET q == a \div d
        r == a % d
    IN  IF 2 * r < d \/ (2 * r = d /\ q % 2 = 0) THEN q ELSE q + 1

RoundDivSigned(a, d) == IF a >= 0 THEN RoundDiv(a, d) ELSE -RoundDiv(-a, d)

\* f32::sqrt of n / MeshDen, over MeshDen: the nearest to the root of n * MeshDen.
F32Sqrt(n) ==
    CHOOSE s \in 0..(2 * MeshDen) :
        /\ (2 * s - 1) * (2 * s - 1) <= 4 * n * MeshDen \/ s = 0
        /\ 4 * n * MeshDen < (2 * s + 1) * (2 * s + 1)

\* Vec3::normalize without the division by the length.
Vec3_normalize_Identity(p) == p

\* Vec3::normalize: self * self.length().recip(), with length = sqrt(dot(self)),
\* NaN for NaN and for the zero vector (0 * infinity).
Vec3_normalize(p) ==
    IF p.nan \/ IDot(p.v, p.v) = 0
    THEN NaN3
    ELSE LET c == [i \in 1..3 |-> RoundDivSigned(p.v[i] * MeshDen, p.d)]
             dot == RoundDiv(IDot(c, c), MeshDen)
             length == F32Sqrt(dot)
             recip == RoundDiv(MeshDen * MeshDen, length)
         IN  Float3([i \in 1..3 |-> RoundDivSigned(c[i] * recip, MeshDen)], MeshDen)

\* PointOnUnitCube without the - 0.5 that centres the face on its normal.
PointOnUnitCube_Uncentred(resolution, normal, axis_a, axis_b, x, y) ==
    LET den == resolution - 1
    IN  IF den = 0
        THEN [nan |-> TRUE, v |-> <<0, 0, 0>>, d |-> 0, q |-> 0]
        ELSE [nan |-> FALSE,
              v |-> IAdd(IAdd(IScale(den, normal), IScale(2 * x, axis_a)),
                         IScale(2 * y, axis_b)),
              d |-> den, q |-> 1]

\* normal + (percent.x - 0.5) * 2.0 * axis_a + (percent.y - 0.5) * 2.0 * axis_b
\* with percent = (x, y) / (resolution - 1): NaN when resolution - 1 is 0.
PointOnUnitCube(resolution, normal, axis_a, axis_b, x, y) ==
    LET den == resolution - 1
    IN  IF den = 0
        THEN NaN3
        ELSE Float3(IAdd(IAdd(IScale(den, normal), IScale(2 * x - den, axis_a)),
                         IScale(2 * y - den, axis_b)),
                    den)

\* What the loop pushes to positions (and, spherified, to normals) at vertex i.
FaceVertex(resolution, normal, spherify, i) ==
    LET axis_a == <<normal[2], normal[3], normal[1]>>
        axis_b == ICross(normal, axis_a)
        x == i % resolution
        y == i \div resolution
        point_on_unit_cube == PointOnUnitCube(resolution, normal, axis_a, axis_b, x, y)
    IN  IF spherify THEN Vec3_normalize(point_on_unit_cube) ELSE point_on_unit_cube

\* What the loop pushes to normals at vertex i.
FaceNormal(resolution, normal, spherify, i) ==
    IF spherify THEN FaceVertex(resolution, normal, spherify, i) ELSE Float3(normal, 1)

\* CellIndices testing x alone: the last row gets cells too.
CellIndices_LastRow(resolution, i) ==
    IF i % resolution # resolution - 1
    THEN <<i, i + resolution + 1, i + resolution, i, i + 1, i + resolution + 1>>
    ELSE <<>>

\* CellIndices with the second and third corner of each triangle exchanged.
CellIndices_Clockwise(resolution, i) ==
    IF i % resolution # resolution - 1 /\ i \div resolution # resolution - 1
    THEN <<i, i + resolution, i + resolution + 1, i, i + resolution + 1, i + 1>>
    ELSE <<>>

\* What the loop pushes to indices at vertex i: the two triangles of the cell.
CellIndices(resolution, i) ==
    LET x == i % resolution
        y == i \div resolution
    IN  IF x # resolution - 1 /\ y # resolution - 1
        THEN <<i, i + resolution + 1, i + resolution, i, i + 1, i + resolution + 1>>
        ELSE <<>>

RECURSIVE FaceIndices(_, _)
FaceIndices(resolution, i) ==
    IF i >= resolution * resolution
    THEN <<>>
    ELSE CellIndices(resolution, i) \o FaceIndices(resolution, i + 1)

create_face_mesh(resolution, normal, spherify) ==
    [positions |-> [k \in 1..(resolution * resolution) |->
                        FaceVertex(resolution, normal, spherify, k - 1)],
     normals |-> [k \in 1..(resolution * resolution) |->
                        FaceNormal(resolution, normal, spherify, k - 1)],
     indices |-> FaceIndices(resolution, 0)]

(***************************************************************************)
(* PlanetSettings, setup_planet, apply_planet_settings.                    *)
(***************************************************************************)
\* A colour channel is counted in half steps of 1/255: 0.5 is 255, 1.0 is 510.
ColorDen == 2 * 255

PlanetSettings_default ==
    [resolution |-> 10,
     spherify |-> TRUE,
     wireframe |-> FALSE,
     color |-> <<255, 255, 306, 510>>]

\* The directions of setup_planet, in its order: Y, -Y, -X, X, Z, -Z.
directions ==
    <<<<0, 1, 0>>, <<0, -1, 0>>, <<-1, 0, 0>>, <<1, 0, 0>>, <<0, 0, 1>>, <<0, 0, -1>>>>

\* A mesh held in Assets<Mesh> is kept as the call that made it.
MeshCall(resolution, normal, spherify) ==
    [resolution |-> resolution, normal |-> normal, spherify |-> spherify]

\* AddFaceMeshes making only the first face with cfg, the others as at startup.
AddFaceMeshes_Partial(cfg, first) ==
    [faces |-> [k \in 1..Len(directions) |->
                    [normal |-> directions[k], mesh |-> first + k - 1]],
     meshes |-> [h \in first..(first + Len(directions) - 1) |->
                    IF h = first
                    THEN MeshCall(cfg.resolution, directions[1], cfg.spherify)
                    ELSE MeshCall(PlanetSettings_default.resolution, directions[h - first + 1],
                                  PlanetSettings_default.spherify)]]

\* The six meshes.add of one pass over the faces, from handle `first` on.
AddFaceMeshes(cfg, first) ==
    [faces |-> [k \in 1..Len(directions) |->
                    [normal |-> directions[k], mesh |-> first + k - 1]],
     meshes |-> [h \in first..(first + Len(directions) - 1) |->
                    MeshCall(cfg.resolution, directions[h - first + 1], cfg.spherify)]]

setup_planet == AddFaceMeshes(PlanetSettings_default, 0)

apply_planet_settings ==
    /\ phase = "update"
    /\ "apply_planet_settings" \notin ran
    /\ IF settings_changed
       THEN LET new == AddFaceMeshes(settings, meshes_added)
            IN  /\ wireframe_global' = settings.wireframe
                /\ material_color' = settings.color
                /\ faces' = new.faces
                /\ meshes' = new.meshes @@ meshes
                /\ meshes_added' = meshes_added + Len(directions)
       ELSE UNCHANGED <<wireframe_global, material_color, faces, meshes, meshes_added>>
    /\ settings_changed' = FALSE
    /\ SystemDone("apply_planet_settings")
    /\ UNCHANGED <<settings, camera_vars, motion_events, scroll_events, reset_invoked,
                   pan_orbit_log, ui_log, mesh_vars>>

(***************************************************************************)
(* ui_editor.                                                              *)
(***************************************************************************)
\* Slider without its range: a value entered is taken as it is.
Slider_Unclamped(value, entered) == IF entered = <<>> THEN value ELSE entered[1]

\* egui::Slider::new(&mut value, 2..=256): a value entered is clamped to the range.
Slider(value, entered) ==
    IF entered = <<>>
    THEN value
    ELSE IF entered[1] < 2 THEN 2 ELSE IF entered[1] > 256 THEN 256 ELSE entered[1]

Checkbox(value, clicked) == IF clicked THEN ~value ELSE value

\* color_picker_widget: the colour goes to 8 bit channels by truncation, through
\* the picker (alpha is opaque and not edited), and back to f32 channels.
color_picker_widget(color, picked) ==
    LET u8(c) == IF (c * 255) \div ColorDen > 255 THEN 255 ELSE (c * 255) \div ColorDen
        srgba == <<u8(color[1]), u8(color[2]), u8(color[3]), u8(color[4])>>
        edited == IF picked = <<>>
                  THEN srgba
                  ELSE <<picked[1][1], picked[1][2], picked[1][3], srgba[4]>>
        f32(b) == (b * ColorDen) \div 255
    IN  <<f32(edited[1]), f32(edited[2]), f32(edited[3]), f32(edited[4])>>

ui_editor(u) ==
    /\ phase = "egui_pass"
    /\ phase' = "idle"
    /\ IF egui_ctx.ok
       THEN /\ settings' = [resolution |-> Slider(settings.resolution, u.resolution),
                            spherify |-> Checkbox(settings.spherify, u.spherify),
                            wireframe |-> Checkbox(settings.wireframe, u.wireframe),
                            color |-> color_picker_widget(settings.color, u.color)]
            /\ settings_changed' = TRUE
            /\ IF u.reset
               THEN /\ state' = PanOrbitState_default_position
                    /\ transform' = DeriveTransform(PanOrbitState_default_position)
                    /\ reset_invoked' = TRUE
               ELSE UNCHANGED <<state, transform, reset_invoked>>
       ELSE UNCHANGED <<settings, settings_changed, state, transform, reset_invoked>>
    /\ ui_log' = IF egui_ctx.ok THEN <<u>> ELSE <<>>
    /\ UNCHANGED <<ran, tick, egui_ctx, mouse_buttons, keys, motion_events, scroll_events,
                   pan_orbit_log, material_color, wireframe_global, faces, meshes, meshes_added, mesh_vars>>

(***************************************************************************)
(* The state after Startup and the inputs of the specifications.           *)
(***************************************************************************)
NoContext == [ok |-> FALSE, wants_pointer_input |-> FALSE, wants_keyboard_input |-> FALSE]
Context(p, k) == [ok |-> TRUE, wants_pointer_input |-> p, wants_keyboard_input |-> k]
Contexts == {NoContext, Context(FALSE, FALSE), Context(TRUE, FALSE), Context(FALSE, TRUE)}

MotionDeltas == {<<1, 0>>, <<0, -1>>, <<5, 0>>}
ScrollChoices ==
    {[unit |-> "Pixel", x |-> 0, y |-> -1],
     [unit |-> "Line", x |-> 0, y |-> 160],
     [unit |-> "Pixel", x |-> 16, y |-> 0]}
OneOf(S) == {<<>>} \cup {<<e>> : e \in S}

\* What a tick can bring to the camera systems: at most one button held, the
\* wheel turned or the pointer moved, the pointer moved far only in a drag, the
\* R key with no button held and in a tick that updates the events.
CameraInputs ==
    {i \in [ctx : Contexts,
            mouse : {{}, {"Middle"}, {"Right"}},
            keys : SUBSET {"KeyR"},
            motion : OneOf(MotionDeltas),
            scroll : OneOf(ScrollChoices),
            update : BOOLEAN] :
        /\ i.scroll # <<>> => i.mouse = {} /\ i.motion = <<>>
        /\ i.mouse # {"Right"} => i.motion \in OneOf({<<1, 0>>})
        /\ i.keys # {} => i.mouse = {} /\ i.update}

\* A tick without pointer or keyboard input.
QuietInputs ==
    [ctx : {c \in Contexts : ~c.wants_pointer_input /\ ~c.wants_keyboard_input},
     mouse : {{}},
     keys : {{}},
     motion : {<<>>},
     scroll : {<<>>},
     update : BOOLEAN]

\* What the user can do in the Controls window in one pass.
UiCameraInputs ==
    {[resolution |-> <<>>, spherify |-> FALSE, wireframe |-> FALSE, color |-> <<>>,
      reset |-> r] : r \in BOOLEAN}
UiPlanetInputs ==
    [resolution : OneOf({1, 2, 3}),
     spherify : BOOLEAN,
     wireframe : BOOLEAN,
     color : OneOf({<<255, 0, 0>>}),
     reset : {FALSE}]

InitSystem ==
    /\ phase = "idle"
    /\ ran = {}
    /\ tick = 0
    /\ egui_ctx = NoContext
    /\ mouse_buttons = [pressed |-> {}, just_pressed |-> {}]
    /\ keys = [pressed |-> {}, just_pressed |-> {}]
    /\ motion_events = NoEvents
    /\ scroll_events = NoEvents
    /\ state = setup_camera.state
    /\ transform = setup_camera.transform
    /\ settings = PlanetSettings_default
    /\ settings_changed = TRUE
    /\ material_color = PlanetSettings_default.color
    /\ wireframe_global = FALSE
    /\ faces = setup_planet.faces
    /\ meshes = setup_planet.meshes
    /\ meshes_added = Len(directions)
    /\ reset_invoked = FALSE
    /\ pan_orbit_log = <<>>
    /\ ui_log = <<>>

Init ==
    /\ InitSystem
    /\ mesh_in = MeshCall(PlanetSettings_default.resolution, directions[1],
                          PlanetSettings_default.spherify)
    /\ mesh_out = <<>>

\* The camera under pointer, scroll and keyboard input, the planet controls untouched.
NextCamera ==
    \/ \E i \in CameraInputs : deliver_input(i)
    \/ pan_orbit_camera
    \/ reset_camera
    \/ apply_planet_settings
    \/ \E u \in UiCameraInputs : ui_editor(u)

SpecCamera == Init /\ [][NextCamera]_vars

\* The planet under edits in the Controls window, the camera left alone.
NextPlanet ==
    \/ \E i \in QuietInputs : deliver_input(i)
    \/ pan_orbit_camera
    \/ reset_camera
    \/ apply_planet_settings
    \/ \E u \in UiPlanetInputs : ui_editor(u)

SpecPlanet == Init /\ [][NextPlanet]_vars

\* create_face_mesh as a function of its arguments.
InitMesh ==
    /\ InitSystem
    /\ mesh_in \in {MeshCall(r, directions[k], s) :
                        r \in 0..MaxRes, k \in 1..Len(directions), s \in BOOLEAN}
    /\ mesh_out = <<>>

call_create_face_mesh ==
    /\ mesh_out = <<>>
    /\ mesh_out' = <<create_face_mesh(mesh_in.resolution, mesh_in.normal, mesh_in.spherify)>>
    /\ UNCHANGED <<engine_vars, camera_vars, planet_vars, reset_invoked, pan_orbit_log, ui_log,
                   mesh_in>>

NextMesh == call_create_face_mesh

SpecMesh == InitMesh /\ [][NextMesh]_vars

(***************************************************************************)
(* Steps of the systems, for the properties below.                         *)
(***************************************************************************)
PanOrbitStep == "pan_orbit_camera" \notin ran /\ "pan_orbit_camera" \in ran'
ApplyStep == "apply_planet_settings" \notin ran /\ "apply_planet_settings" \in ran'
AnyFocus(ctx) == ctx.ok /\ (ctx.wants_pointer_input \/ ctx.wants_keyboard_input)
Abs(n) == IF n < 0 THEN -n ELSE n

(***************************************************************************)
(* The camera.                                                             *)
(***************************************************************************)
\* C1: at the end of every tick in which a reset was carried out (the R key in
\* reset_camera or the button in ui_editor), the PanOrbitState is the default
\* position and the Transform is the one derived from it, whatever input the
\* tick brought and in whatever order the Update systems ran.
C1_ResetDeterminism ==
    (phase = "idle" /\ reset_invoked) =>
        /\ state = PanOrbitState_default_position
        /\ transform = DeriveTransform(PanOrbitState_default_position)

\* C2 as claimed: in a tick in which the UI claims pointer focus or keyboard
\* focus, pan_orbit_camera changes neither the PanOrbitState nor the Transform.
C2_GatedByAnyFocus ==
    [][(PanOrbitStep /\ AnyFocus(egui_ctx)) => UNCHANGED <<state, transform>>]_vars

\* C2 as amended: in a tick in which the UI claims pointer focus,
\* pan_orbit_camera changes neither the PanOrbitState nor the Transform, whatever
\* buttons are held and whatever motion and scroll events are pending.
C2_GatedByPointerFocus ==
    [][(PanOrbitStep /\ egui_ctx.ok /\ egui_ctx.wants_pointer_input)
            => UNCHANGED <<state, transform>>]_vars

\* pan_orbit_camera has run under pointer focus with the orbit button held and
\* motion pending, and the camera is as it was.
C2_Witness ==
    /\ "pan_orbit_camera" \in ran
    /\ egui_ctx.ok /\ egui_ctx.wants_pointer_input
    /\ "Right" \in mouse_buttons.pressed
    /\ UnreadEvents(motion_events) # <<>>
    /\ pan_orbit_log # <<>>
    /\ state = pan_orbit_log[1].before

\* C3 as claimed: yaw lies in the half-open interval (-PI, PI] in every state.
C3_YawHalfOpen == state.yaw > -PI /\ state.yaw <= PI

\* C3 as amended: yaw starts in the closed interval [-PI, PI], and every step
\* keeps it there provided the orbit delta of the tick is at most one turn: a
\* delta that pushes yaw past PI or below -PI is wrapped back in the same tick.
C3_YawClosedForBoundedDelta ==
    /\ state.yaw \in (-PI)..PI
    /\ [][(/\ state.yaw \in (-PI)..PI
           /\ PanOrbitStep => Abs(pan_orbit_log'[1].total_orbit[1]) <= TAU)
            => state'.yaw \in (-PI)..PI]_vars

\* An orbit of a quarter turn has taken yaw from -PI below -PI, and yaw has been
\* wrapped to PI minus a quarter turn.
C3_Witness ==
    /\ pan_orbit_log # <<>>
    /\ ~pan_orbit_log[1].gated
    /\ pan_orbit_log[1].before.yaw = -PI
    /\ pan_orbit_log[1].total_orbit = <<-FRAC_PI_2, 0>>
    /\ ~state.upside_down
    /\ state.yaw = PI - FRAC_PI_2

\* C4: in every tick without UI focus in which the orbit button goes from
\* unpressed to pressed, pan_orbit_camera sets upside_down to (pitch < -PI/2 or
\* pitch > PI/2) of the pitch held before the tick, with or without motion.
C4_PoleFlipRecompute ==
    [][(/\ PanOrbitStep
        /\ ~AnyFocus(egui_ctx)
        /\ OptionJustPressed(mouse_buttons, PanOrbitSettings_default.orbit_button))
            => state'.upside_down =
                    (state.pitch < -FRAC_PI_2 \/ state.pitch > FRAC_PI_2)]_vars

\* a + b*sqrt(10) > 0.
QPositive(p) ==
    \/ p[1] >= 0 /\ p[2] >= 0 /\ p # QZero
    \/ p[1] > 0 /\ p[2] < 0 /\ p[1] * p[1] > 10 * p[2] * p[2]
    \/ p[1] < 0 /\ p[2] > 0 /\ 10 * p[2] * p[2] > p[1] * p[1]

\* C13: in every state reached from the initial camera state by ticks of zoom,
\* pan, orbit and reset, the orbit radius is greater than 0.
C13_RadiusPositive == QPositive(state.radius.m)

\* Steps of reset_camera and of ui_editor.
ResetStep == "reset_camera" \notin ran /\ "reset_camera" \in ran'
UiStep == phase = "egui_pass" /\ phase' = "idle"

\* C14: while the UI claims keyboard focus, reset_camera changes neither the
\* PanOrbitState nor the Transform, R pressed or not; a click on 'Reset Camera
\* Now' in the UI pass leaves the camera at the default position with the
\* Transform derived from it, whatever focus the UI claims.
C14_ResetGating ==
    [][/\ (ResetStep /\ egui_ctx.ok /\ egui_ctx.wants_keyboard_input)
            => UNCHANGED <<state, transform>>
       /\ (UiStep /\ ui_log' # <<>> /\ ui_log'[1].reset)
            => /\ state' = PanOrbitState_default_position
               /\ transform' = DeriveTransform(PanOrbitState_default_position)]_vars

\* R was just pressed under keyboard focus, reset_camera has run and the camera
\* is away from the default position; the button was then clicked in the UI
\* pass of that tick and the camera is at the default position.
C14_Witness ==
    /\ phase = "idle"
    /\ egui_ctx.ok /\ egui_ctx.wants_keyboard_input
    /\ "KeyR" \in keys.just_pressed
    /\ pan_orbit_log # <<>>
    /\ pan_orbit_log[1].before # PanOrbitState_default_position
    /\ ui_log # <<>> /\ ui_log[1].reset
    /\ state = PanOrbitState_default_position

\* No pointer or scroll input can act: there is no unread scroll event, and there
\* is no unread motion or no button of an action held.
NoCameraInput ==
    /\ UnreadEvents(scroll_events) = <<>>
    /\ \/ UnreadEvents(motion_events) = <<>>
       \/ mouse_buttons.pressed \cap {"Middle", "Right"} = {}

\* C16: in a tick in which pan_orbit_camera is not gated and the pan, orbit and
\* zoom deltas it computes are all zero (as they are without scroll and without
\* motion under a held button), it leaves the PanOrbitState and the Transform as
\* they were; when one of them is not zero, the Transform is the one derived
\* from the updated state.
C16_NoDeltaNoOp ==
    [][(PanOrbitStep /\ ~pan_orbit_log'[1].gated) =>
        LET l == pan_orbit_log'[1]
            none == /\ l.total_pan = Vec2_ZERO
                    /\ l.total_orbit = Vec2_ZERO
                    /\ l.total_zoom = Vec2_ZERO
        IN  /\ NoCameraInput => none
            /\ none => UNCHANGED <<state, transform>>
            /\ ~none => transform' = DeriveTransform(state')]_vars

\* After the camera has left its first position, pan_orbit_camera has run
\* ungated with the orbit button held and no motion: no delta, and the camera is
\* as it was.
C16_Witness ==
    /\ pan_orbit_log # <<>>
    /\ ~pan_orbit_log[1].gated
    /\ "Right" \in mouse_buttons.pressed
    /\ pan_orbit_log[1].total_orbit = Vec2_ZERO
    /\ pan_orbit_log[1].total_pan = Vec2_ZERO
    /\ pan_orbit_log[1].total_zoom = Vec2_ZERO
    /\ state = pan_orbit_log[1].before
    /\ state # setup_camera.state
    /\ transform = DeriveTransform(state)

\* C17: in every tick with an orbit delta (dx, dy) other than zero, yaw changes
\* by -dx when upside_down (as it stands when the delta is applied) is true and
\* by +dx when it is false, up to the wrap by whole turns; pitch changes by
\* exactly dy, unwrapped and unclamped; and upside_down keeps its value in every
\* tick in which the orbit button was not just pressed, wherever pitch goes.
C17_UpsideDownNegation ==
    [][(PanOrbitStep /\ ~pan_orbit_log'[1].gated) =>
        LET dx == pan_orbit_log'[1].total_orbit[1]
            dy == pan_orbit_log'[1].total_orbit[2]
            applied == IF state'.upside_down THEN -dx ELSE dx
        IN  /\ pan_orbit_log'[1].total_orbit # Vec2_ZERO =>
                    /\ (state'.yaw - (state.yaw + applied)) % TAU = 0
                    /\ state'.pitch = state.pitch + dy
            /\ ~OptionJustPressed(mouse_buttons, PanOrbitSettings_default.orbit_button)
                    => state'.upside_down = state.upside_down]_vars

\* The camera is upside down, beyond the pole, and a horizontal drag has turned
\* yaw against the delta, which turning with the delta would not have given.
C17_Witness ==
    /\ pan_orbit_log # <<>>
    /\ ~pan_orbit_log[1].gated
    /\ state.upside_down
    /\ pan_orbit_log[1].before.pitch < -FRAC_PI_2
    /\ pan_orbit_log[1].total_orbit[1] # 0
    /\ (state.yaw - (pan_orbit_log[1].before.yaw - pan_orbit_log[1].total_orbit[1])) % TAU = 0
    /\ (state.yaw - (pan_orbit_log[1].before.yaw + pan_orbit_log[1].total_orbit[1])) % TAU # 0

\* The events pan_orbit_camera is about to read that were sent in a tick before.
StaleEvents(ev) == {k \in 1..Len(UnreadEvents(ev)) : UnreadEvents(ev)[k].sent < tick}

\* C18: motion and scroll events sent in a tick in which the UI claims pointer
\* focus add to the deltas of no later tick: when pan_orbit_camera runs ungated
\* it has no event of an earlier tick to read, and in a tick that brought no
\* new event it computes no delta and leaves the PanOrbitState as it was.
C18_GatedInputDiscarded ==
    [][(PanOrbitStep /\ ~pan_orbit_log'[1].gated) =>
        /\ StaleEvents(motion_events) = {}
        /\ StaleEvents(scroll_events) = {}
        /\ (\A k \in 1..Len(UnreadEvents(motion_events) \o UnreadEvents(scroll_events)) :
                (UnreadEvents(motion_events) \o UnreadEvents(scroll_events))[k].sent < tick)
                => /\ pan_orbit_log'[1].total_pan = Vec2_ZERO
                   /\ pan_orbit_log'[1].total_orbit = Vec2_ZERO
                   /\ pan_orbit_log'[1].total_zoom = Vec2_ZERO
                   /\ state' = state]_vars

\* C19: in every state from startup on, the Transform has the rotation of the
\* YXZ euler angles (yaw, pitch, 0) of the PanOrbitState and the translation
\* center + rotation * (0, 0, radius).
C19_TransformConsistent ==
    /\ transform.rotation = Quat_from_euler(state.yaw, state.pitch)
    /\ transform.translation =
            OrbitTranslation(state.center, Quat_from_euler(state.yaw, state.pitch), state.radius)

\* The camera has been panned off the origin, turned and zoomed away from
\* where setup_camera put it, and the Transform follows.
C19_Witness ==
    /\ state.center # Vec3_ZERO
    /\ state.yaw # setup_camera.state.yaw
    /\ state.radius # setup_camera.state.radius
    /\ QPositive(state.radius.m)
    /\ transform.translation # state.center
    /\ transform = DeriveTransform(state)

\* C20: a tick whose only delta is zoom changes radius only, and not even that
\* when the zoom delta has only a horizontal component; a tick whose only delta
\* is pan changes center only; a tick whose only delta is orbit leaves center
\* and radius as they were; and, with the default settings, motion with no
\* button held changes nothing while scroll changes radius only.
C20_PerActionFrame ==
    [][(PanOrbitStep /\ ~pan_orbit_log'[1].gated) =>
        LET l == pan_orbit_log'[1]
            zoom == l.total_zoom # Vec2_ZERO
            pan == l.total_pan # Vec2_ZERO
            orbit == l.total_orbit # Vec2_ZERO
        IN  /\ (zoom /\ ~pan /\ ~orbit) =>
                    /\ state' = [state EXCEPT !.radius = state'.radius]
                    /\ l.total_zoom[2] = 0 => state'.radius = state.radius
            /\ (pan /\ ~zoom /\ ~orbit) =>
                    state' = [state EXCEPT !.center = state'.center]
            /\ (orbit /\ ~zoom /\ ~pan) =>
                    /\ state'.center = state.center
                    /\ state'.radius = state.radius
            /\ mouse_buttons.pressed = {} =>
                    /\ ~pan /\ ~orbit
                    /\ state' = [state EXCEPT !.radius = state'.radius]
                    /\ UnreadEvents(scroll_events) = <<>> => state' = state]_vars

\* A scroll with only a horizontal component has given a zoom delta other than
\* zero, and the camera state is as it was.
C20_Witness ==
    /\ pan_orbit_log # <<>>
    /\ ~pan_orbit_log[1].gated
    /\ pan_orbit_log[1].total_zoom[1] # 0
    /\ pan_orbit_log[1].total_zoom[2] = 0
    /\ pan_orbit_log[1].total_pan = Vec2_ZERO
    /\ pan_orbit_log[1].total_orbit = Vec2_ZERO
    /\ state = pan_orbit_log[1].before

(***************************************************************************)
(* The planet.                                                             *)
(***************************************************************************)
\* The six face meshes were made with the resolution and spherify of cfg.
FacesMadeWith(cfg) ==
    \A k \in 1..Len(faces) :
        /\ meshes[faces[k].mesh].resolution = cfg.resolution
        /\ meshes[faces[k].mesh].spherify = cfg.spherify

\* C5: an update of the settings that alters resolution or spherify makes
\* apply_planet_settings regenerate all six face meshes, with the new values,
\* in the tick that detects it; one that alters only color or only wireframe
\* regenerates no face mesh.
C5_ChangeDetection ==
    [][ApplyStep =>
        /\ ~FacesMadeWith(settings) =>
                \A k \in 1..Len(faces) :
                    /\ faces'[k].mesh # faces[k].mesh
                    /\ meshes'[faces'[k].mesh] =
                            MeshCall(settings.resolution, faces[k].normal, settings.spherify)
        /\ (/\ FacesMadeWith(settings)
            /\ settings.color # material_color \/ settings.wireframe # wireframe_global)
                => faces' = faces /\ meshes' = meshes]_vars

\* C6: when the settings hold the resolution and spherify the face meshes were
\* already made with, apply_planet_settings regenerates nothing.
C6_IdempotentNoOp ==
    [][(ApplyStep /\ FacesMadeWith(settings))
            => UNCHANGED <<faces, meshes, meshes_added>>]_vars

\* C11: between ticks there are exactly six planet faces, one per normal of
\* +X, -X, +Y, -Y, +Z, -Z, and the six face meshes were made from one and the
\* same resolution and spherify, each with the normal of its face.
C11_AtomicSixFaces ==
    phase = "idle" =>
        /\ Len(faces) = 6
        /\ {faces[k].normal : k \in 1..Len(faces)} =
                {<<1, 0, 0>>, <<-1, 0, 0>>, <<0, 1, 0>>, <<0, -1, 0>>, <<0, 0, 1>>, <<0, 0, -1>>}
        /\ \E r \in 0..256, s \in BOOLEAN :
                \A k \in 1..Len(faces) :
                    /\ faces[k].mesh \in DOMAIN meshes
                    /\ meshes[faces[k].mesh] = MeshCall(r, faces[k].normal, s)

\* Between ticks, after an edit of resolution and spherify in the Controls
\* window, the faces have been regenerated with the edited values.
C11_Witness ==
    /\ phase = "idle"
    /\ meshes_added > Len(directions)
    /\ settings.resolution = 3 /\ ~settings.spherify
    /\ FacesMadeWith(settings)

\* C12: in every state the resolution of the settings is at least 2, and every
\* mesh setup_planet or apply_planet_settings has made was made with a
\* resolution of at least 2.
C12_ResolutionAtLeastTwo ==
    /\ settings.resolution >= 2
    /\ \A h \in DOMAIN meshes : meshes[h].resolution >= 2

\* The slider stands at the lower end of its range and the faces have been
\* regenerated with that resolution.
C12_Witness ==
    /\ settings.resolution = 2
    /\ meshes_added > Len(directions)
    /\ \A k \in 1..Len(faces) : meshes[faces[k].mesh].resolution = 2

(***************************************************************************)
(* create_face_mesh.                                                       *)
(***************************************************************************)
\* The squared length of a vertex, times the square of its denominator, less
\* the square of the denominator: 0 for a vector of length 1.
LengthError(p) == IDot(p.v, p.v) - p.d * p.d * p.q

Built == mesh_out # <<>>
Max3(v) ==
    LET a == Abs(v[1])
        b == Abs(v[2])
        c == Abs(v[3])
    IN  IF a >= b /\ a >= c THEN a ELSE IF b >= c THEN b ELSE c

\* C7: for every resolution r >= 2, face normal and spherify, the mesh has
\* r * r positions, r * r normals and 6 * (r - 1) * (r - 1) indices.
C7_GridSize ==
    (Built /\ mesh_in.resolution >= 2) =>
        LET r == mesh_in.resolution
        IN  /\ Len(mesh_out[1].positions) = r * r
            /\ Len(mesh_out[1].normals) = r * r
            /\ Len(mesh_out[1].indices) = 6 * (r - 1) * (r - 1)

\* A mesh of the largest resolution has been built, with its indices.
C7_Witness ==
    /\ Built
    /\ mesh_in.resolution = MaxRes
    /\ Len(mesh_out[1].indices) > 6

\* C8 as claimed: without spherify, for r >= 2, the largest absolute coordinate
\* of every position is 0.5 and every normal is the face normal.
C8_CubeHalfExtentHalf ==
    (Built /\ mesh_in.resolution >= 2 /\ ~mesh_in.spherify) =>
        \A k \in 1..Len(mesh_out[1].positions) :
            LET p == mesh_out[1].positions[k]
            IN  /\ ~p.nan /\ p.q = 1 /\ 2 * Max3(p.v) = p.d
                /\ mesh_out[1].normals[k] = Float3(mesh_in.normal, 1)

\* C8 as amended: without spherify, for r >= 2, the largest absolute coordinate
\* of every position is 1 (the cube has half extent 1) and every normal is the
\* face normal.
C8_CubeHalfExtentOne ==
    (Built /\ mesh_in.resolution >= 2 /\ ~mesh_in.spherify) =>
        \A k \in 1..Len(mesh_out[1].positions) :
            LET p == mesh_out[1].positions[k]
            IN  /\ ~p.nan /\ p.q = 1 /\ Max3(p.v) = p.d
                /\ mesh_out[1].normals[k] = Float3(mesh_in.normal, 1)

\* A cube face of the largest resolution has been built, with a vertex inside the face.
C8_Witness ==
    /\ Built
    /\ mesh_in.resolution = MaxRes
    /\ ~mesh_in.spherify
    /\ \E k \in 1..Len(mesh_out[1].positions) :
            LET p == mesh_out[1].positions[k]
            IN  Cardinality({c \in 1..3 : Abs(p.v[c]) = p.d}) = 1

\* The triangles of a mesh, as triples of indices.
Triangles(mesh) ==
    {<<mesh.indices[3 * t + 1], mesh.indices[3 * t + 2], mesh.indices[3 * t + 3]>> :
        t \in 0..((Len(mesh.indices) \div 3) - 1)}

\* The right-hand normal of a triangle of a cube face, scaled by d * d.
TriangleNormal(mesh, t) ==
    LET P(j) == mesh.positions[j + 1].v
    IN  ICross(ISub(P(t[2]), P(t[1])), ISub(P(t[3]), P(t[1])))

\* C9: for r >= 2 and each face normal n, without spherify, every triangle
\* emitted is (i, i + r + 1, i + r) or (i, i + 1, i + r + 1) for a cell i, and
\* its right-hand normal points along +n.
C9_OutwardWinding ==
    (Built /\ mesh_in.resolution >= 2 /\ ~mesh_in.spherify) =>
        LET r == mesh_in.resolution
        IN  \A t \in Triangles(mesh_out[1]) :
                /\ \/ t = <<t[1], t[1] + r + 1, t[1] + r>>
                   \/ t = <<t[1], t[1] + 1, t[1] + r + 1>>
                /\ IDot(TriangleNormal(mesh_out[1], t), mesh_in.normal) > 0
                /\ ICross(TriangleNormal(mesh_out[1], t), mesh_in.normal) = <<0, 0, 0>>

\* A cube face of the largest resolution has been built, with both triangles of a cell.
C9_Witness ==
    /\ Built
    /\ mesh_in.resolution = MaxRes
    /\ ~mesh_in.spherify
    /\ \E t1, t2 \in Triangles(mesh_out[1]) :
            /\ t1 = <<0, MaxRes + 1, MaxRes>>
            /\ t2 = <<0, 1, MaxRes + 1>>

\* C10: for resolution 0 and 1 create_face_mesh returns without having divided
\* by resolution - 1 = 0: no position and no normal is NaN.
C10_DegenerateGuard ==
    (Built /\ mesh_in.resolution < 2) =>
        /\ \A k \in 1..Len(mesh_out[1].positions) : ~mesh_out[1].positions[k].nan
        /\ \A k \in 1..Len(mesh_out[1].normals) : ~mesh_out[1].normals[k].nan

\* C15 as claimed: with spherify, for r >= 2, every position has length 1
\* exactly and the normal of every vertex is its position.
C15_UnitLengthExact ==
    (Built /\ mesh_in.resolution >= 2 /\ mesh_in.spherify) =>
        \A k \in 1..Len(mesh_out[1].positions) :
            LET p == mesh_out[1].positions[k]
            IN  /\ ~p.nan /\ LengthError(p) = 0
                /\ mesh_out[1].normals[k] = p

\* C15 as amended: with spherify, for r >= 2, every position has length 1 to
\* within the rounding of the floats (its squared length is within 4 units in
\* the last place of 1) and the normal of every vertex is its position.
C15_UnitLengthRounded ==
    (Built /\ mesh_in.resolution >= 2 /\ mesh_in.spherify) =>
        \A k \in 1..Len(mesh_out[1].positions) :
            LET p == mesh_out[1].positions[k]
            IN  /\ ~p.nan /\ p.q = 1
                /\ Abs(LengthError(p)) <= 4 * p.d
                /\ mesh_out[1].normals[k] = p

\* A spherified face of the largest resolution has been built, with a vertex
\* off the axes whose length the rounding has taken off 1.
C15_Witness ==
    /\ Built
    /\ mesh_in.resolution = MaxRes
    /\ mesh_in.spherify
    /\ \E k \in 1..Len(mesh_out[1].positions) :
            LET p == mesh_out[1].positions[k]
            IN  /\ ~p.nan
                /\ Cardinality({c \in 1..3 : p.v[c] # 0}) = 3
                /\ LengthError(p) # 0
                /\ mesh_out[1].normals[k] = p

====
